---- MODULE Spec2Model ----
(***************************************************************************)
(* Model of the car-pricing-api of the Nest-JS-Course repository: the      *)
(* credential hasher, the users and reports services, the session, the     *)
(* identity resolver, the two guards, the serializer and the price         *)
(* estimate query.                                                         *)
(***************************************************************************)
EXTENDS Integers, Sequences, FiniteSets, TLC

VARIABLES
    users,        \* rows of the user table (a set of User records)
    nextUserId,   \* next value of the AUTOINCREMENT primary key of user
    reports,      \* rows of the report table, in insertion (id) order
    session,      \* cookie session of each client: its userId (0 = none)
    clock,        \* the wall clock read by new Date()
    wiring,       \* how the identity resolver is registered in users.module
    last,         \* the outcome of the last HTTP request or service call
    hq            \* credential hasher under test: plaintext, candidate, stored

vars == <<users, nextUserId, reports, session, clock, wiring, last, hq>>

-----------------------------------------------------------------------------
(* Strings.  A JavaScript string is a sequence of tokens; a token is a      *)
(* run of text without '.', the character '.', or the 64 hex digits of a    *)
(* derived key.                                                             *)

Txt(c) == [t |-> "txt", c |-> c, p |-> <<>>, s |-> <<>>]
Dot == [t |-> ".", c |-> "", p |-> <<>>, s |-> <<>>]
Str(c) == <<Txt(c)>>
EmptyStr == <<>>

\* String.prototype.split('.'): the segments between the dots (at least one).
RECURSIVE SplitFrom(_, _, _)
SplitFrom(str, i, cur) ==
    IF i > Len(str) THEN <<cur>>
    ELSE IF str[i] = Dot THEN <<cur>> \o SplitFrom(str, i + 1, <<>>)
    ELSE SplitFrom(str, i + 1, Append(cur, str[i]))

split(str) == SplitFrom(str, 1, <<>>)

\* scrypt(password, salt, 32): a 32 byte buffer; distinct inputs give distinct
\* keys (the key derivation is taken to be collision free).
KeyLen == 32
scrypt(password, salt) == [t |-> "key", c |-> "", p |-> password, s |-> salt]

\* Buffer.toString('hex')
toHex(buf) == <<[t |-> "hex", c |-> "", p |-> buf.p, s |-> buf.s]>>

\* Buffer.from(str, 'hex'): decodes hex digits; text that is not the hex of a
\* key decodes to a buffer of another length.
fromHex(str) ==
    IF Len(str) = 1 /\ str[1].t = "hex"
    THEN [t |-> "key", c |-> "", p |-> str[1].p, s |-> str[1].s]
    ELSE [t |-> "bytes", c |-> "", p |-> str, s |-> <<>>]

bufLength(buf) == IF buf.t = "key" THEN KeyLen ELSE 0

\* hashPassword with the salt drawn by randomBytes(8).toString('hex')
hashPasswordFixedSalt(password, salt) ==
    Str("5a17") \o <<Dot>> \o toHex(scrypt(password, Str("5a17")))
hashPassword(password, salt) ==
    salt \o <<Dot>> \o toHex(scrypt(password, salt))

\* !salt || !storedHashedPassword, on the first two segments of the split
InvalidFormat(segs) ==
    Len(segs) < 2 \/ segs[1] = EmptyStr \/ segs[2] = EmptyStr

verifyPasswordAcceptsEmptySalt(storedPassword, suppliedPassword) ==
    LET segs == split(storedPassword)
    IN  IF Len(segs) < 2 \/ segs[2] = EmptyStr
        THEN FALSE
        ELSE fromHex(segs[2]) = scrypt(suppliedPassword, segs[1])
verifyPasswordLengthOnly(storedPassword, suppliedPassword) ==
    LET segs == split(storedPassword)
    IN  /\ Len(segs) >= 2 /\ segs[1] # EmptyStr /\ segs[2] # EmptyStr
        /\ bufLength(fromHex(segs[2])) = KeyLen
verifyPassword(storedPassword, suppliedPassword) ==
    LET segs == split(storedPassword)
    IN  IF Len(segs) < 2 \/ segs[1] = EmptyStr \/ segs[2] = EmptyStr
        THEN FALSE
        ELSE LET salt == segs[1]
                 suppliedHashedPassword == scrypt(suppliedPassword, salt)
                 storedBuffer == fromHex(segs[2])
             IN  IF bufLength(storedBuffer) # bufLength(suppliedHashedPassword)
                 THEN FALSE
                 ELSE storedBuffer = suppliedHashedPassword

\* timingSafeEqual throws a RangeError on buffers of different length
timingSafeEqualThrows(a, b) == bufLength(a) # bufLength(b)

\* whether the call of verifyPassword ends by an exception
verifyPasswordThrows(storedPassword, suppliedPassword) ==
    LET segs == split(storedPassword)
    IN  IF InvalidFormat(segs) THEN FALSE
        ELSE LET suppliedHashedPassword == scrypt(suppliedPassword, segs[1])
                 storedBuffer == fromHex(segs[2])
             IN  IF bufLength(storedBuffer) # bufLength(suppliedHashedPassword)
                 THEN FALSE
                 ELSE timingSafeEqualThrows(storedBuffer, suppliedHashedPassword)

\* the values verifyPassword passes to console.error and console.log
verifyPasswordLog(storedPassword, suppliedPassword) ==
    LET segs == split(storedPassword)
    IN  IF InvalidFormat(segs)
        THEN <<Str("Invalid stored password format:"), storedPassword>>
        ELSE LET suppliedHashedPassword == scrypt(suppliedPassword, segs[1])
                 storedBuffer == fromHex(segs[2])
             IN  <<Str("Salt:"), segs[1], Str("Stored Hash:"), segs[2],
                   Str("Supplied Hash:"), toHex(suppliedHashedPassword)>>
                 \o (IF bufLength(storedBuffer)
                          # bufLength(suppliedHashedPassword)
                     THEN <<Str("Length mismatch")>>
                     ELSE <<Str("Match:")>>)

-----------------------------------------------------------------------------
(* Input domains *)

Salts == {Str("5a17"), Str("c0de"), Str("beef")}
Passwords == {Str("123456"), Str("password"), Str("skjadhkash"),
              Str("654321"), <<Txt("pass"), Dot, Txt("word")>>, EmptyStr}

-----------------------------------------------------------------------------
(* Report table and the price estimate query (ReportsService) *)

Space == Txt(" ")

\* String.prototype.trim()
RECURSIVE trimStart(_)
trimStart(str) ==
    IF str # <<>> /\ Head(str) = Space THEN trimStart(Tail(str)) ELSE str

RECURSIVE trimEnd(_)
trimEnd(str) ==
    IF str # <<>> /\ str[Len(str)] = Space
    THEN trimEnd(SubSeq(str, 1, Len(str) - 1)) ELSE str

trim(str) == trimEnd(trimStart(str))

\* GetEstimateDto: the @Transform of each query parameter
GetEstimateDto(raw) ==
    [make |-> trim(raw.make), model |-> trim(raw.model), year |-> raw.year,
     lng |-> raw.lng, lat |-> raw.lat, mileage |-> raw.mileage]

\* x BETWEEN lo AND hi
BETWEEN(x, lo, hi) == lo <= x /\ x <= hi

whereMake(r, q) == r.make = q.make
whereModel(r, q) == r.model = q.model
whereLng(r, q) == BETWEEN(r.lng - q.lng, -5, 5)
whereLatDropped(r, q) == TRUE
whereLat(r, q) == BETWEEN(r.lat - q.lat, -5, 5)
whereYear(r, q) == BETWEEN(r.year - q.year, -3, 3)
whereApprovedDropped(r) == TRUE
whereApproved(r) == r.approved = TRUE

\* the rows the WHERE clause keeps, in table order
Where(rows, q) ==
    SelectSeq(rows, LAMBDA r :
        /\ whereMake(r, q) /\ whereModel(r, q)
        /\ whereLng(r, q) /\ whereLat(r, q)
        /\ whereYear(r, q) /\ whereApproved(r))

RECURSIVE SumPrice(_)
SumPrice(rows) ==
    IF rows = <<>> THEN 0 ELSE Head(rows).price + SumPrice(Tail(rows))

RECURSIVE GCD(_, _)
GCD(a, b) == IF b = 0 THEN a ELSE GCD(b, a % b)

\* a number sum/count in lowest terms, or SQL NULL
Num(sum, count) ==
    LET g == GCD(sum, count)
    IN  [isNull |-> FALSE, num |-> sum \div g, den |-> count \div g]
SqlNull == [isNull |-> TRUE, num |-> 0, den |-> 1]

\* AVG(price) over a group of rows: NULL for the empty group
AVGZeroWhenEmpty(rows) ==
    IF rows = <<>> THEN Num(0, 1) ELSE Num(SumPrice(rows), Len(rows))
AVGAsSum(rows) ==
    IF rows = <<>> THEN SqlNull ELSE Num(SumPrice(rows), 1)
AVG(rows) ==
    IF rows = <<>> THEN SqlNull ELSE Num(SumPrice(rows), Len(rows))

\* An aggregate without GROUP BY makes one result row out of all the rows
\* the WHERE clause keeps; ORDER BY and LIMIT then apply to the result rows.
EstimateLimit == 3
Aggregate(rows) == <<[price |-> AVG(rows)]>>
OrderByDesc(resultRows) == resultRows
Limit(resultRows, n) ==
    SubSeq(resultRows, 1, IF Len(resultRows) < n THEN Len(resultRows) ELSE n)

\* ReportsService.createEstimate: getRawOne() of the query
createEstimate(rows, q) ==
    Limit(OrderByDesc(Aggregate(Where(rows, q))), EstimateLimit)[1]

\* ReportsService.create: repo.create(dto), report.user = user, repo.save
NewReport(id, dto, user) ==
    [id |-> id, price |-> dto.price, make |-> dto.make, model |-> dto.model,
     year |-> dto.year, lng |-> dto.lng, lat |-> dto.lat,
     mileage |-> dto.mileage, approved |-> FALSE, user |-> user]

\* ReportsService.changeApproval on the row with the given id
SetApproval(rows, id, approved) ==
    [i \in DOMAIN rows |->
        IF rows[i].id = id THEN [rows[i] EXCEPT !.approved = approved]
        ELSE rows[i]]

ReportDtoIn(price, year, lng, lat, mileage) ==
    [price |-> price, make |-> Str("Honda"), model |-> Str("Civic"),
     year |-> year, lng |-> lng, lat |-> lat, mileage |-> mileage]

ReportInputs ==
    { ReportDtoIn(9000, 2020, 0, 0, 10000),
      ReportDtoIn(7000, 2020, 0, 0, 50000),
      ReportDtoIn(5000, 2020, 0, 0, 90000),
      ReportDtoIn(1000, 2023, 5, -5, 0),
      ReportDtoIn(3000, 2016, 0, 0, 10000) }

QueryIn(make, model, year, lng, lat) ==
    [make |-> make, model |-> model, year |-> year, lng |-> lng, lat |-> lat,
     mileage |-> 10000]

QueryInputs ==
    { QueryIn(<<Space, Txt("Honda"), Space>>, Str("Civic"), 2020, 0, 0),
      QueryIn(Str("honda"), Str("Civic"), 2020, 0, 0),
      QueryIn(Str("Honda"), Str("Accord"), 2020, 0, 0),
      QueryIn(Str("Honda"), Str("Civic"), 2019, 0, 0),
      QueryIn(Str("Honda"), Str("Civic"), 2020, -1, 0),
      QueryIn(Str("Honda"), Str("Civic"), 2020, 0, 1) }

-----------------------------------------------------------------------------
(* Bounds *)

MaxUsers == 1
MaxReports == 4
MaxRouteReports == 1
MaxTime == 1

Clients == {1, 2}
UserIds == 1..MaxUsers

-----------------------------------------------------------------------------
(* The reports service called directly, as its unit tests call it *)

NoCall == [op |-> "none"]
OwnerInputs == {1}

InitEstimate ==
    /\ users = {}
    /\ nextUserId = 1
    /\ reports = <<>>
    /\ session = [c \in Clients |-> 0]
    /\ clock = 0
    /\ wiring = "middleware"
    /\ last = NoCall
    /\ hq = NoCall

\* ReportsService.create(reportDto, user)
SvcCreate(dto, user) ==
    /\ Len(reports) < MaxReports
    /\ reports' = Append(reports, NewReport(Len(reports) + 1, dto, user))
    /\ last' = [op |-> "create", threw |-> FALSE]
    /\ UNCHANGED <<users, nextUserId, session, clock, wiring, hq>>

\* ReportsService.changeApproval(id, approved)
SvcChangeApproval(id, approved) ==
    /\ IF \E i \in DOMAIN reports : reports[i].id = id
       THEN /\ reports' = SetApproval(reports, id, approved)
            /\ last' = [op |-> "changeApproval", threw |-> FALSE]
       ELSE /\ reports' = reports
            /\ last' = [op |-> "changeApproval", threw |-> TRUE]
    /\ UNCHANGED <<users, nextUserId, session, clock, wiring, hq>>

\* ReportsService.createEstimate(query), the query parsed by GetEstimateDto
SvcCreateEstimate(raw) ==
    /\ last' = [op |-> "createEstimate", query |-> GetEstimateDto(raw),
                result |-> createEstimate(reports, GetEstimateDto(raw))]
    /\ UNCHANGED <<users, nextUserId, reports, session, clock, wiring, hq>>

NextEstimate ==
    \/ \E dto \in ReportInputs, u \in OwnerInputs : SvcCreate(dto, u)
    \/ \E id \in 1..Len(reports) + 1, a \in BOOLEAN : SvcChangeApproval(id, a)
    \/ \E raw \in QueryInputs : SvcCreateEstimate(raw)

SpecEstimate == InitEstimate /\ [][NextEstimate]_vars

-----------------------------------------------------------------------------
(* Properties of the price estimate *)

Abs(x) == IF x < 0 THEN -x ELSE x

\* the filters of the estimate as the specification words them
Comparable(r, q) ==
    /\ r.make = q.make /\ r.model = q.model
    /\ Abs(r.lng - q.lng) <= 5 /\ Abs(r.lat - q.lat) <= 5
    /\ Abs(r.year - q.year) <= 3

Survivors(q) ==
    {i \in DOMAIN reports : reports[i].approved /\ Comparable(reports[i], q)}

RECURSIVE SumOver(_)
SumOver(S) ==
    IF S = {} THEN 0
    ELSE LET i == CHOOSE j \in S : TRUE
         IN  reports[i].price + SumOver(S \ {i})

MeanOf(S) == IF S = {} THEN SqlNull ELSE Num(SumOver(S), Cardinality(S))

Estimated == last.op = "createEstimate"

\* T holds the (at most three) members of S furthest in mileage from the query
FurthestThree(T, S, q) ==
    /\ T \subseteq S
    /\ Cardinality(T) = (IF Cardinality(S) < 3 THEN Cardinality(S) ELSE 3)
    /\ \A i \in T, j \in S \ T :
          Abs(reports[i].mileage - q.mileage) >= Abs(reports[j].mileage - q.mileage)

\* C5: createEstimate returns the mean price of at most 3 reports, the first
\* 3 of the qualifying reports ordered descending by |mileage - query.mileage|;
\* further qualifying reports do not influence the result.
C5_MeanOfFurthestThree ==
    Estimated /\ Survivors(last.query) # {} =>
        \E T \in SUBSET Survivors(last.query) :
            /\ FurthestThree(T, Survivors(last.query), last.query)
            /\ last.result.price = MeanOf(T)

\* C6: a report whose approved flag is false never contributes to the value
\* createEstimate returns: the estimate over the table equals the estimate
\* over the table without its unapproved reports.
C6_UnapprovedNeverContribute ==
    Estimated =>
        last.result =
            createEstimate(SelectSeq(reports, LAMBDA r : r.approved), last.query)

C6_Witness ==
    /\ Estimated
    /\ ~last.result.price.isNull
    /\ \E i \in DOMAIN reports :
          ~reports[i].approved /\ Comparable(reports[i], last.query)

\* C7: a report contributes to createEstimate only if its make and model
\* equal the trimmed query make and model exactly and it lies within 5 of the
\* query on lng, within 5 on lat and within 3 on year, bounds inclusive: the
\* estimate over the table equals the estimate over its comparable reports.
C7_OnlyComparableContribute ==
    Estimated =>
        last.result =
            createEstimate(
                SelectSeq(reports, LAMBDA r : Comparable(r, last.query)),
                last.query)

\* a report on the edge of every window is averaged in, another one just
\* outside a window is in the table
C7_Witness ==
    /\ Estimated
    /\ last.query.make = Str("Honda")
    /\ \E i \in Survivors(last.query) :
          /\ Abs(reports[i].lng - last.query.lng) = 5
          /\ Abs(reports[i].lat - last.query.lat) = 5
          /\ Abs(reports[i].year - last.query.year) = 3
          /\ last.result.price # MeanOf(Survivors(last.query) \ {i})
    /\ \E j \in DOMAIN reports :
          reports[j].approved /\ ~Comparable(reports[j], last.query)

\* C8: when at most 3 approved reports survive the filters, createEstimate
\* returns the arithmetic mean of the prices of all survivors.
C8_MeanOfAllSurvivors ==
    Estimated /\ Cardinality(Survivors(last.query)) \in 1..3 =>
        last.result.price = MeanOf(Survivors(last.query))

\* three Honda Civic reports priced 9000, 7000 and 5000 give 7000
C8_Witness ==
    /\ Estimated
    /\ Cardinality(Survivors(last.query)) = 3
    /\ {reports[i].price : i \in Survivors(last.query)} = {9000, 7000, 5000}
    /\ last.result.price = Num(7000, 1)

\* C9: when no approved report satisfies the filters, the result of
\* createEstimate is absent and is never the number zero.
C9_NoEstimateIsNull ==
    Estimated /\ Survivors(last.query) = {} =>
        last.result.price.isNull /\ last.result.price # Num(0, 1)

C9_Witness ==
    /\ Estimated
    /\ Survivors(last.query) = {}
    /\ \E i \in DOMAIN reports : reports[i].approved
    /\ last.result.price.isNull

-----------------------------------------------------------------------------
(* The credential hasher called directly *)

InitHash ==
    /\ users = {}
    /\ nextUserId = 1
    /\ reports = <<>>
    /\ session = [c \in Clients |-> 0]
    /\ clock = 0
    /\ wiring = "middleware"
    /\ last = NoCall
    /\ hq = NoCall

\* stored strings handed to verifyPassword that hashPassword did not make
StoredInputs ==
    { Str("123456"), EmptyStr, <<Dot>>,
      <<Dot>> \o toHex(scrypt(Str("123456"), EmptyStr)),
      Str("5a17") \o <<Dot>>,
      Str("5a17") \o <<Dot, Dot>> \o toHex(scrypt(Str("123456"), Str("5a17"))),
      Str("5a17") \o <<Dot>> \o Str("zz") }

\* the last hashPassword call, kept to compare the next one with it
Before ==
    IF hq.op \in {"hashPassword", "verifyPassword"}
    THEN <<[password |-> hq.password, salt |-> hq.salt, stored |-> hq.stored]>>
    ELSE <<>>

\* hashPassword(password); randomBytes(8) yields the salt
CallHashPassword(password, salt) ==
    /\ hq' = [op |-> "hashPassword", password |-> password, salt |-> salt,
              stored |-> hashPassword(password, salt),
              supplied |-> EmptyStr, result |-> FALSE, threw |-> FALSE,
              log |-> <<>>, before |-> Before]
    /\ UNCHANGED <<users, nextUserId, reports, session, clock, wiring, last>>

\* verifyPassword(stored, supplied) on the output of the last hashPassword
CallVerifyPassword(supplied) ==
    /\ hq.op \in {"hashPassword", "verifyPassword"}
    /\ hq' = [op |-> "verifyPassword", password |-> hq.password,
              salt |-> hq.salt, stored |-> hq.stored, supplied |-> supplied,
              result |-> verifyPassword(hq.stored, supplied),
              threw |-> verifyPasswordThrows(hq.stored, supplied),
              log |-> verifyPasswordLog(hq.stored, supplied),
              before |-> <<>>]
    /\ UNCHANGED <<users, nextUserId, reports, session, clock, wiring, last>>

\* verifyPassword(stored, supplied) on any other stored string
CallVerifyStored(stored, supplied) ==
    /\ hq' = [op |-> "verifyStored", password |-> EmptyStr,
              salt |-> EmptyStr, stored |-> stored, supplied |-> supplied,
              result |-> verifyPassword(stored, supplied),
              threw |-> verifyPasswordThrows(stored, supplied),
              log |-> verifyPasswordLog(stored, supplied),
              before |-> <<>>]
    /\ UNCHANGED <<users, nextUserId, reports, session, clock, wiring, last>>

NextHash ==
    \/ \E p \in Passwords, salt \in Salts : CallHashPassword(p, salt)
    \/ \E q \in Passwords : CallVerifyPassword(q)
    \/ \E st \in StoredInputs, q \in Passwords : CallVerifyStored(st, q)

SpecHash == InitHash /\ [][NextHash]_vars

\* C10: for all passwords p and q, verifyPassword(hashPassword(p), q) is
\* true if and only if p = q.
C10_VerifyIffSamePassword ==
    hq.op = "verifyPassword" => (hq.result <=> hq.password = hq.supplied)

C10_Witness ==
    /\ hq.op = "verifyPassword"
    /\ hq.result
    /\ hq.password = <<Txt("pass"), Dot, Txt("word")>>

\* two consecutive hashPassword calls for the same plaintext
HashedTwice ==
    /\ hq.op = "hashPassword"
    /\ hq.before # <<>>
    /\ hq.before[1].password = hq.password

FirstDot(str) == CHOOSE i \in 1..Len(str) :
                    str[i] = Dot /\ \A j \in 1..(i - 1) : str[j] # Dot
Malformed(str) ==
    \/ \A i \in 1..Len(str) : str[i] # Dot
    \/ FirstDot(str) = 1
    \/ FirstDot(str) = Len(str)
    \/ str[FirstDot(str) + 1] = Dot

\* C12: verifyPassword on a malformed stored string (no '.' delimiter, empty
\* salt segment or empty hash segment) returns false for every candidate
\* password and does not throw.
C12_MalformedIsFalse ==
    hq.op \in {"verifyPassword", "verifyStored"} /\ Malformed(hq.stored) =>
        ~hq.result /\ ~hq.threw

\* an empty salt segment followed by the key the candidate derives with the
\* empty salt
C12_Witness ==
    /\ hq.op = "verifyStored"
    /\ hq.stored = <<Dot>> \o toHex(scrypt(hq.supplied, EmptyStr))
    /\ ~hq.result

\* the plaintext, the salt, the stored hash and the derived key of a call
Secrets ==
    LET segs == split(hq.stored)
    IN  {hq.supplied, hq.stored}
          \cup (IF Len(segs) >= 2
                THEN {segs[1], segs[2], toHex(scrypt(hq.supplied, segs[1]))}
                ELSE {})

\* C13: no execution of verifyPassword writes the plaintext, the salt, the
\* stored hash or the derived key to the console.
C13_VerifyLogsNoSecret ==
    hq.op \in {"verifyPassword", "verifyStored"} =>
        \A i \in 1..Len(hq.log) : hq.log[i] \notin Secrets

-----------------------------------------------------------------------------
(* The HTTP application: user table, session, resolver, guards, serializer *)

Emails == {"a@test.com", "b@test.com"}
Names == {"Zack"}
RoutePasswords == {Str("123456"), Str("password")}
RouteSalts == {Str("5a17")}
RouteReportInputs == {ReportDtoIn(9000, 2020, 0, 0, 10000)}
Wirings == {"interceptor", "middleware"}

\* User.isAdmin of a new row: the column default, or the value an operator
\* gives the row
IsAdminOnInsert == BOOLEAN

\* UpdateUserDto: any of name, email, password
UpdateInputs ==
    {[f \in {"password"} |-> pw] : pw \in RoutePasswords}
        \cup {[f \in {"email"} |-> e] : e \in Emails}

The(S) == CHOOSE x \in S : TRUE
IdOf(S) == IF S = {} THEN 0 ELSE The(S).id
NoData == <<>>

\* repo.findOne({ where: { id } }) / repo.findOneBy({ email })
ById(tbl, id) == {u \in tbl : u.id = id}
ByEmailAnyRow(tbl, email) == tbl
ByEmail(tbl, email) == {u \in tbl : u.email = email}

\* UsersService.findOne: a found user is saved with updatedAt = new Date()
findOneSave(tbl, id, now) ==
    {IF u.id = id THEN [u EXCEPT !.updatedAt = now] ELSE u : u \in tbl}

\* Object.assign(user, attrs)
ObjectAssign(user, attrs) ==
    [f \in DOMAIN user |-> IF f \in DOMAIN attrs THEN attrs[f] ELSE user[f]]

\* repo.create(userData) + repo.save: a new row of the user table
NewUser(id, name, email, password, isAdmin, now) ==
    [id |-> id, name |-> name, email |-> email, password |-> password,
     isAdmin |-> isAdmin, createdAt |-> now, updatedAt |-> now]

\* the outcome of a service call: an exception (its status and message) or
\* a returned user (a set: empty for null), and the user table afterwards
Threw(status, message, tbl) ==
    [threw |-> TRUE, status |-> status, message |-> message, user |-> {},
     tbl |-> tbl]
Returned(user, tbl) ==
    [threw |-> FALSE, status |-> 0, message |-> "", user |-> user, tbl |-> tbl]

\* UsersService.create: null when the email is taken, else the saved row
create(tbl, userData, id, isAdmin, now) ==
    IF ByEmail(tbl, userData.email) # {}
    THEN Returned({}, tbl)
    ELSE LET user == NewUser(id, userData.name, userData.email,
                             userData.password, isAdmin, now)
         IN  Returned({user}, tbl \cup {user})

\* AuthService.signup, hashPassword drawing the salt
signupNoEmailCheck(tbl, data, salt, id, isAdmin, now) ==
    create(tbl, [name |-> data.name, email |-> data.email,
                 password |-> hashPassword(data.password, salt)],
           id, isAdmin, now)
signup(tbl, data, salt, id, isAdmin, now) ==
    IF ByEmail(tbl, data.email) # {}
    THEN Threw(400, "Email in use", tbl)
    ELSE create(tbl, [name |-> data.name, email |-> data.email,
                      password |-> hashPassword(data.password, salt)],
                id, isAdmin, now)

\* AuthService.signin
signinSkipsVerify(tbl, data) ==
    LET user == ByEmail(tbl, data.email)
    IN  IF user = {} THEN Threw(404, "User not found", tbl)
        ELSE Returned(user, tbl)
signin(tbl, data) ==
    LET user == ByEmail(tbl, data.email)
    IN  IF user = {}
        THEN Threw(404, "User not found", tbl)
        ELSE IF ~verifyPassword(The(user).password, data.password)
        THEN Threw(400, "Invalid password", tbl)
        ELSE Returned(user, tbl)

\* !session || !session.userId
NoSessionUser(sid) == sid = 0

\* The identity resolver (CurrentUserInterceptor.intercept, and the same
\* steps in CurrentUserMiddleware.use): one findOne when the session has a
\* userId; request.currentUser is set when a user is found.
ResolverTable(tbl, sid, now) ==
    IF NoSessionUser(sid) THEN tbl ELSE findOneSave(tbl, sid, now)
ResolverUserNotSet(tbl, sid) == {}
ResolverUser(tbl, sid) ==
    IF NoSessionUser(sid) THEN {} ELSE ById(tbl, sid)

\* Guards run before interceptors and after middleware: request.currentUser
\* as a guard reads it
CurrentUserAtGuard(tbl, sid) ==
    IF wiring = "middleware" THEN ResolverUser(tbl, sid) ELSE {}
TableAtGuard(tbl, sid, now) ==
    IF wiring = "middleware" THEN ResolverTable(tbl, sid, now) ELSE tbl

\* AuthGuard.canActivate: throws Forbidden unless the session has a userId
AuthGuardAllowsAll(sid, currentUser) == TRUE
AuthGuard(sid, currentUser) == ~NoSessionUser(sid)

\* AdminGuard.canActivate
AdminGuardSessionOnly(sid, currentUser) == ~NoSessionUser(sid)
AdminGuardAnyUser(sid, currentUser) == currentUser # {}
AdminGuard(sid, currentUser) ==
    IF currentUser = {} THEN FALSE
    ELSE IF ~The(currentUser).isAdmin THEN FALSE
    ELSE TRUE

\* the @Expose() fields of the two response dtos
UserDto == {"id", "name", "email", "isAdmin", "createdAt", "updatedAt"}
ReportDto ==
    {"id", "price", "make", "model", "year", "lng", "lat", "mileage", "userId"}

\* plainToClass(dto, obj, { excludeExtraneousValues: true }), as JSON
plainToClassKeepsAll(dto, obj) == obj
plainToClass(dto, obj) == [f \in (DOMAIN obj) \cap dto |-> obj[f]]

\* the object literal { id, name, email, createdAt, updatedAt } of a user
UserData(u) ==
    [f \in {"id", "name", "email", "createdAt", "updatedAt"} |-> u[f]]

\* SerializeInterceptor on the user routes: the envelope has a data object
SerializeUser(data) == plainToClass(UserDto, data)

\* the parameters of a request: @Param('id') / @Query, and the body's email
\* and password
NoArg == [id |-> 0, email |-> "", password |-> EmptyStr]

\* the ids the identity resolver asks usersService.findOne for
ResolverLookupsNoSessionCheck(sid) == <<sid>>
ResolverLookups(sid) == IF NoSessionUser(sid) THEN <<>> ELSE <<sid>>

\* an interceptor does not run when a guard has thrown
ResolverRan(guard) == ~(guard = "denied" /\ wiring = "interceptor")

Resp(op, c, guard, atGuard, cu, ran, status, message, data) ==
    [op |-> op, client |-> c, guard |-> guard, userAtGuard |-> atGuard,
     currentUser |-> cu, ran |-> ran, status |-> status,
     message |-> message, data |-> data, arg |-> NoArg,
     lookups |-> IF c \in Clients /\ ResolverRan(guard)
                 THEN ResolverLookups(session[c]) ELSE <<>>]

\* the response to a request made with the given parameters
Asked(resp, id, email, password) ==
    [resp EXCEPT !.arg = [id |-> id, email |-> email, password |-> password]]

Init ==
    /\ users = {}
    /\ nextUserId = 1
    /\ reports = <<>>
    /\ session = [c \in Clients |-> 0]
    /\ clock = 0
    /\ wiring \in Wirings
    /\ last = Resp("none", 0, "none", 0, 0, FALSE, 0, "", NoData)
    /\ hq = NoCall

\* time passes
Tick ==
    /\ clock < MaxTime
    /\ clock' = clock + 1
    /\ UNCHANGED <<users, nextUserId, reports, session, wiring, last, hq>>

\* GET /users/whoami, @UseGuards(AuthGuard)
WhoAmI(c) ==
    LET sid == session[c]
        atGuard == CurrentUserAtGuard(users, sid)
        tbl == ResolverTable(users, sid, clock)
        cu == ResolverUser(tbl, sid)
    IN  /\ IF ~AuthGuard(sid, atGuard)
           THEN /\ users' = TableAtGuard(users, sid, clock)
                /\ last' = Resp("whoAmI", c, "denied", IdOf(atGuard),
                                IdOf(atGuard), FALSE, 403,
                                "Forbidden resource", NoData)
           ELSE /\ users' = tbl
                /\ last' =
                     IF cu = {}
                     THEN \* user.name of undefined: a TypeError
                          Resp("whoAmI", c, "allowed", IdOf(atGuard), 0, TRUE,
                               500, "Internal server error", NoData)
                     ELSE Resp("whoAmI", c, "allowed", IdOf(atGuard),
                               IdOf(cu), TRUE, 200, "is logged in",
                               UserData(The(cu)))
        /\ UNCHANGED <<nextUserId, reports, session, clock, wiring, hq>>

\* the user the register and login handlers find for session.userId
LoggedInUser(tbl, sid) == IF sid > 0 THEN ById(tbl, sid) ELSE {}

\* POST /users/register, @Serialize(UserDto); AuthService.signup
Register(c, name, email, password, salt, isAdmin) ==
    LET sid == session[c]
        tbl == ResolverTable(users, sid, clock)
        cu == ResolverUser(tbl, sid)
        loggedIn == LoggedInUser(tbl, sid)
        r == signup(tbl, [name |-> name, email |-> email,
                          password |-> password],
                    salt, nextUserId, isAdmin, clock)
    IN  IF loggedIn # {}
        THEN /\ users' = tbl
             /\ last' = Resp("register", c, "none", 0, IdOf(cu), TRUE, 201,
                             "is already logged in",
                             SerializeUser(UserData(The(loggedIn))))
             /\ UNCHANGED <<nextUserId, reports, session, clock, wiring, hq>>
        ELSE IF r.threw
        THEN /\ users' = r.tbl
             /\ last' = Resp("register", c, "none", 0, IdOf(cu), TRUE,
                             r.status, r.message, NoData)
             /\ UNCHANGED <<nextUserId, reports, session, clock, wiring, hq>>
        ELSE IF r.user = {}
        THEN /\ users' = r.tbl
             /\ last' = Resp("register", c, "none", 0, IdOf(cu), TRUE, 400,
                             "User could not be created", NoData)
             /\ UNCHANGED <<nextUserId, reports, session, clock, wiring, hq>>
        ELSE /\ nextUserId <= MaxUsers
             /\ users' = r.tbl
             /\ nextUserId' = nextUserId + 1
             /\ session' = [session EXCEPT ![c] = The(r.user).id]
             /\ last' = Resp("register", c, "none", 0, IdOf(cu), TRUE, 201,
                             "has been created successfully",
                             SerializeUser(UserData(The(r.user))))
             /\ UNCHANGED <<reports, clock, wiring, hq>>

\* POST /users/login, @Serialize(UserDto); AuthService.signin
Login(c, email, password) ==
    LET sid == session[c]
        tbl == ResolverTable(users, sid, clock)
        cu == ResolverUser(tbl, sid)
        loggedIn == LoggedInUser(tbl, sid)
        r == signin(tbl, [email |-> email, password |-> password])
    IN  IF loggedIn # {}
        THEN /\ users' = tbl
             /\ session' = session
             /\ last' = Asked(Resp("login", c, "none", 0, IdOf(cu), TRUE, 201,
                                  "is already logged in",
                                  SerializeUser(UserData(The(loggedIn)))),
                             0, email, password)
             /\ UNCHANGED <<nextUserId, reports, clock, wiring, hq>>
        ELSE /\ users' = r.tbl
             /\ IF r.threw
                THEN /\ session' = session
                     /\ last' = Asked(Resp("login", c, "none", 0, IdOf(cu),
                                          TRUE, r.status, r.message,
                                          NoData),
                                     0, email, password)
                ELSE /\ session' = [session EXCEPT ![c] = The(r.user).id]
                     /\ last' = Asked(Resp("login", c, "none", 0, IdOf(cu),
                                          TRUE, 201,
                                          "has been logged in successfully",
                                          SerializeUser(UserData(The(r.user)))),
                                     0, email, password)
             /\ UNCHANGED <<nextUserId, reports, clock, wiring, hq>>

\* POST /users/signout
SignOut(c) ==
    LET sid == session[c]
        tbl == ResolverTable(users, sid, clock)
        cu == ResolverUser(tbl, sid)
    IN  /\ users' = tbl
        /\ session' = [session EXCEPT ![c] = 0]
        /\ last' = Resp("signOut", c, "none", 0, IdOf(cu), TRUE, 201,
                        "User has been signed out successfully", NoData)
        /\ UNCHANGED <<nextUserId, reports, clock, wiring, hq>>

\* the rows of the report table that reference the user
ReportsOf(id) == {i \in DOMAIN reports : reports[i].user = id}

\* repo.remove(user): the removed entity, its id cleared
Removed(u) == [f \in (DOMAIN u) \ {"id"} |-> u[f]]

\* @Column({ unique: true }) email: the save of a row whose email another
\* row holds fails
UniqueEmailFails(tbl, user) ==
    \E u \in tbl : u.id # user.id /\ u.email = user.email

\* if (attrs.email): an absent or empty email is falsy
HasEmail(attrs) == "email" \in DOMAIN attrs /\ attrs.email # ""

\* UsersService.update
updateNoEmailCheck(tbl, id, attrs, now) ==
    LET tbl1 == findOneSave(tbl, id, now)
        user == ById(tbl1, id)
    IN  IF user = {} THEN Threw(500, "User not found", tbl1)
        ELSE Returned({ObjectAssign(The(user), attrs)},
                      (tbl1 \ user) \cup {ObjectAssign(The(user), attrs)})
update(tbl, id, attrs, now) ==
    LET tbl1 == findOneSave(tbl, id, now)
        user == ById(tbl1, id)
        updated == ObjectAssign(The(user), attrs)
    IN  IF user = {}
        THEN Threw(500, "User not found", tbl1)
        ELSE IF HasEmail(attrs) /\ ByEmail(tbl1, attrs.email) # {}
        THEN Threw(500, "Email already exists", tbl1)
        ELSE IF UniqueEmailFails(tbl1, updated)
        THEN Threw(500, "UNIQUE constraint failed: user.email", tbl1)
        ELSE Returned({updated}, (tbl1 \ user) \cup {updated})

\* UsersService.remove
remove(tbl, id, now) ==
    LET tbl1 == findOneSave(tbl, id, now)
        user == ById(tbl1, id)
    IN  IF user = {}
        THEN Threw(500, "User not found", tbl1)
        ELSE IF ReportsOf(id) # {}
        THEN Threw(500, "FOREIGN KEY constraint failed", tbl1)
        ELSE Returned({Removed(The(user))}, tbl1 \ user)

\* PATCH /users/:id, @Serialize(UserDto); UsersService.update
UpdateUser(c, id, attrs) ==
    LET sid == session[c]
        tbl0 == ResolverTable(users, sid, clock)
        cu == ResolverUser(tbl0, sid)
        r == update(tbl0, id, attrs, clock)
    IN  /\ users' = r.tbl
        /\ last' =
             Asked(IF r.threw
             THEN \* an Error that is not an HttpException
                  Resp("updateUser", c, "none", 0, IdOf(cu), TRUE, 500,
                       "Internal server error", NoData)
             ELSE Resp("updateUser", c, "none", 0, IdOf(cu), TRUE, 200,
                       "has been updated successfully",
                       SerializeUser(The(r.user))),
                   id, "", EmptyStr)
        /\ UNCHANGED <<nextUserId, reports, session, clock, wiring, hq>>

\* DELETE /users/delete?id=, @Serialize(UserDto); UsersService.remove
DeleteUser(c, id) ==
    LET sid == session[c]
        tbl0 == ResolverTable(users, sid, clock)
        cu == ResolverUser(tbl0, sid)
        r == remove(tbl0, id, clock)
    IN  /\ users' = r.tbl
        /\ last' =
             Asked(IF r.threw
             THEN \* Error('User not found'), or the foreign key of a report
                  Resp("deleteUser", c, "none", 0, IdOf(cu), TRUE, 500,
                       "Internal server error", NoData)
             ELSE Resp("deleteUser", c, "none", 0, IdOf(cu), TRUE, 200,
                       "has been deleted successfully",
                       SerializeUser(The(r.user))),
                   id, "", EmptyStr)
        /\ UNCHANGED <<nextUserId, reports, session, clock, wiring, hq>>

\* GET /users?email=, @Serialize(UserDto); UsersService.findByEmail
GetUserByEmail(c, email) ==
    LET sid == session[c]
        tbl == ResolverTable(users, sid, clock)
        cu == ResolverUser(tbl, sid)
        user == ByEmail(tbl, email)
    IN  /\ users' = tbl
        /\ last' =
             Asked(IF user = {}
             THEN Resp("getUserByEmail", c, "none", 0, IdOf(cu), TRUE, 400,
                       "User not found", NoData)
             ELSE Resp("getUserByEmail", c, "none", 0, IdOf(cu), TRUE, 200,
                       "has been retrieved successfully",
                       SerializeUser(The(user))),
                   0, email, EmptyStr)
        /\ UNCHANGED <<nextUserId, reports, session, clock, wiring, hq>>

\* GET /users/:id, @Serialize(UserDto); UsersService.findOne
GetUserById(c, id) ==
    LET sid == session[c]
        tbl0 == ResolverTable(users, sid, clock)
        cu == ResolverUser(tbl0, sid)
        tbl == findOneSave(tbl0, id, clock)
        user == ById(tbl, id)
    IN  /\ users' = tbl
        /\ last' =
             Asked(IF user = {}
             THEN Resp("getUserById", c, "none", 0, IdOf(cu), TRUE, 400,
                       "User not found", NoData)
             ELSE Resp("getUserById", c, "none", 0, IdOf(cu), TRUE, 200,
                       "has been retrieved successfully",
                       SerializeUser(The(user))),
                   id, "", EmptyStr)
        /\ UNCHANGED <<nextUserId, reports, session, clock, wiring, hq>>

\* a report as repo.findOne({ where: { id } }) loads it: without relations
WithoutRelations(r) == [f \in (DOMAIN r) \ {"user"} |-> r[f]]

\* @Transform(({ obj }) => obj.user.id) throws when obj.user is undefined
HasUser(obj) == "user" \in DOMAIN obj

\* SerializeInterceptor with ReportDto on a report that has its user
SerializeReport(obj) ==
    LET exposed == plainToClass(ReportDto, obj)
    IN  [f \in (DOMAIN exposed) \cup {"userId"} |->
            IF f = "userId" THEN obj.user.id ELSE exposed[f]]

\* POST /reports, @UseGuards(AuthGuard) @Serialize(ReportDto)
CreateReport(c, dto) ==
    LET sid == session[c]
        atGuard == CurrentUserAtGuard(users, sid)
        tbl == ResolverTable(users, sid, clock)
        cu == ResolverUser(tbl, sid)
        report == NewReport(Len(reports) + 1, dto, IdOf(cu))
    IN  /\ IF ~AuthGuard(sid, atGuard)
           THEN /\ users' = TableAtGuard(users, sid, clock)
                /\ reports' = reports
                /\ last' = Resp("createReport", c, "denied", IdOf(atGuard),
                                IdOf(atGuard), FALSE, 403,
                                "Forbidden resource", NoData)
           ELSE /\ Len(reports) < MaxRouteReports
                /\ users' = tbl
                /\ reports' = Append(reports, report)
                /\ last' =
                     IF cu = {}
                     THEN \* user.id of undefined, after the save
                          Resp("createReport", c, "allowed", IdOf(atGuard), 0,
                               TRUE, 500, "Internal server error", NoData)
                     ELSE Resp("createReport", c, "allowed", IdOf(atGuard),
                               IdOf(cu), TRUE, 201,
                               "Report created successfully",
                               SerializeReport(
                                   [report EXCEPT !.user = The(cu)]))
        /\ UNCHANGED <<nextUserId, session, clock, wiring, hq>>

\* PATCH /reports/:id, @UseGuards(AdminGuard) @Serialize(ReportDto)
ApproveReport(c, id, approved) ==
    LET sid == session[c]
        atGuard == CurrentUserAtGuard(users, sid)
        tbl == ResolverTable(users, sid, clock)
        cu == ResolverUser(tbl, sid)
        found == \E i \in DOMAIN reports : reports[i].id = id
        saved == WithoutRelations(
                     The({SetApproval(reports, id, approved)[i] :
                            i \in {j \in DOMAIN reports : reports[j].id = id}}))
        denied == Resp("approveReport", c, "denied", IdOf(atGuard),
                       IdOf(atGuard), FALSE, 403,
                       IF atGuard = {}
                       THEN "You must be logged in to access this resource"
                       ELSE "Only admins can access this resource",
                       NoData)
        missing == Resp("approveReport", c, "allowed", IdOf(atGuard),
                        IdOf(cu), TRUE, 500, "Report not found", NoData)
        done == IF HasUser(saved)
                THEN Resp("approveReport", c, "allowed", IdOf(atGuard),
                          IdOf(cu), TRUE, 200, "Report approved or rejected",
                          SerializeReport(saved))
                ELSE \* obj.user.id of undefined, after the save
                     Resp("approveReport", c, "allowed", IdOf(atGuard),
                          IdOf(cu), TRUE, 500, "Internal server error",
                          NoData)
    IN  /\ IF ~AdminGuard(sid, atGuard)
           THEN /\ users' = TableAtGuard(users, sid, clock)
                /\ reports' = reports
                /\ last' = Asked(denied, id, "", EmptyStr)
           ELSE /\ users' = tbl
                /\ IF ~found
                   THEN /\ reports' = reports
                        /\ last' = Asked(missing, id, "", EmptyStr)
                   ELSE /\ reports' = SetApproval(reports, id, approved)
                        /\ last' = Asked(done, id, "", EmptyStr)
        /\ UNCHANGED <<nextUserId, session, clock, wiring, hq>>

RouteQueryInputs ==
    { QueryIn(<<Space, Txt("Honda"), Space>>, Str("Civic"), 2020, 0, 0),
      QueryIn(Str("honda"), Str("Civic"), 2020, 0, 0) }

\* GET /reports?make=..., no guard and no serializer
GetEstimate(c, raw) ==
    LET sid == session[c]
        tbl == ResolverTable(users, sid, clock)
        cu == ResolverUser(tbl, sid)
    IN  /\ users' = tbl
        /\ last' = Resp("getEstimate", c, "none", 0, IdOf(cu), TRUE, 200, "",
                        createEstimate(reports, GetEstimateDto(raw)))
        /\ UNCHANGED <<nextUserId, reports, session, clock, wiring, hq>>

Next ==
    \/ Tick
    \/ \E c \in Clients : WhoAmI(c)
    \/ \E c \in Clients, n \in Names, e \in Emails, pw \in RoutePasswords,
          salt \in RouteSalts, a \in IsAdminOnInsert :
            Register(c, n, e, pw, salt, a)
    \/ \E c \in Clients, e \in Emails, pw \in RoutePasswords : Login(c, e, pw)
    \/ \E c \in Clients : SignOut(c)
    \/ \E c \in Clients, id \in UserIds, attrs \in UpdateInputs :
          UpdateUser(c, id, attrs)
    \/ \E c \in Clients, id \in UserIds : DeleteUser(c, id)
    \/ \E c \in Clients, e \in Emails : GetUserByEmail(c, e)
    \/ \E c \in Clients, id \in UserIds : GetUserById(c, id)
    \/ \E c \in Clients, dto \in RouteReportInputs : CreateReport(c, dto)
    \/ \E c \in Clients, id \in 1..MaxRouteReports + 1, a \in BOOLEAN :
          ApproveReport(c, id, a)
    \/ \E c \in Clients, raw \in RouteQueryInputs : GetEstimate(c, raw)

Spec == Init /\ [][Next]_vars

-----------------------------------------------------------------------------
(* Properties of the guards, the stored credentials and the serializer *)

\* C1: on an AuthGuard route (whoAmI, createReport) the guard allows the
\* request if and only if the identity resolver produced a user for it; a
\* session whose userId refers to a deleted user is denied and the handler
\* does not run.
C1_AuthGuardIffUserResolved ==
    last.op \in {"whoAmI", "createReport"} =>
        /\ last.guard = "allowed" <=> last.currentUser # 0
        /\ last.currentUser = 0 => ~last.ran

\* C2: on the AdminGuard route approveReport the guard allows the request if
\* and only if a user was resolved for the session and that user's isAdmin
\* flag is true.
C2_AdminGuardIffResolvedAdmin ==
    last.op = "approveReport" =>
        (last.guard = "allowed" <=>
            \E u \in users : u.id = last.currentUser /\ u.isAdmin)

\* a resolved user without isAdmin is denied by AdminGuard on a request
\* AuthGuard allows
C2_Witness ==
    /\ last.op = "approveReport"
    /\ last.guard = "denied"
    /\ \E u \in users : u.id = last.currentUser /\ ~u.isAdmin
    /\ AuthGuard(session[last.client], ById(users, last.currentUser))

\* the text of a stored credential: salt '.' hex of the derived key
Encoded(str) ==
    LET segs == split(str)
    IN  /\ Len(segs) = 2
        /\ segs[1] \in Salts
        /\ Len(segs[2]) = 1 /\ segs[2][1].t = "hex"

\* C3: in every reachable state the password stored for every user is an
\* encoded salt.hash string and never a plaintext password supplied by a
\* client, updateUser included.
C3_StoredPasswordsEncoded ==
    \A u \in users : Encoded(u.password) /\ u.password \notin RoutePasswords

SerializedUserOps ==
    {"register", "login", "getUserById", "getUserByEmail", "updateUser",
     "deleteUser"}
SerializedReportOps == {"createReport", "approveReport"}

\* C4: the data of the response of a Serialize(dto) handler has only fields
\* on the dto's allow-list; no response of a serialized handler carries a
\* user's password, whatever fields the source object has.
C4_OnlyExposedFields ==
    /\ last.op \in SerializedUserOps => DOMAIN last.data \subseteq UserDto
    /\ last.op \in SerializedReportOps => DOMAIN last.data \subseteq ReportDto
    /\ last.op \in SerializedUserOps \cup SerializedReportOps =>
          "password" \notin DOMAIN last.data /\ "user" \notin DOMAIN last.data

\* a stored user, password included, went through the serializer
C4_Witness ==
    /\ last.op = "getUserById"
    /\ last.status = 200
    /\ DOMAIN last.data = UserDto
    /\ \E u \in users : u.id = last.data.id /\ "password" \in DOMAIN u

\* C14: a login with a registered email and a wrong password has the same
\* status and message as a login with an email that is not registered.
C14_LoginFailuresIdentical ==
    last.op = "login" /\ last.status # 201 =>
        \A e \in Emails, pw \in RoutePasswords :
            ByEmail(users, e) = {} =>
                LET r == signin(users, [email |-> e, password |-> pw])
                IN  r.status = last.status /\ r.message = last.message

\* a register or login response that put a user id in the session
SessionEstablished(resp) ==
    /\ resp.op \in {"register", "login"}
    /\ resp.status = 201
    /\ resp.message \in {"has been created successfully",
                          "has been logged in successfully"}

\* C17: after a successful register or login on a fresh session the
\* session's userId is the id of the user in the response, and the whoAmI
\* request that follows on that session looks that id up and returns the
\* same user's id, name and email.
C17_RoundTrip ==
    [][ /\ SessionEstablished(last') =>
              session'[last'.client] = last'.data.id
        /\ SessionEstablished(last) /\ last'.op = "whoAmI"
              /\ last'.client = last.client =>
                /\ last'.status = 200
                /\ last'.currentUser = last.data.id
                /\ last'.data.id = last.data.id
                /\ last'.data.name = last.data.name
                /\ last'.data.email = last.data.email ]_vars

\* whoAmI answers with the user a login put in the session
C17_Witness ==
    /\ last.op = "whoAmI"
    /\ last.status = 200
    /\ last.data.id = session[last.client]
    /\ last.currentUser = last.data.id

GuardedOps == {"whoAmI", "createReport", "approveReport"}

C19_ReportsHaveOwner ==
    \A i \in DOMAIN reports : reports[i].user # 0

\* a report but for its approved flag
WithoutApproved(r) == [f \in (DOMAIN r) \ {"approved"} |-> r[f]]

\* C20: a report is created with approved = false; a stored report changes
\* only in its approved flag and only by an approveReport request that
\* AdminGuard allowed, made by a user whose isAdmin is true; no request
\* deletes a report.
C20_ApprovalOnlyByAdmin ==
    [][ /\ Len(reports') >= Len(reports)
        /\ \A i \in (DOMAIN reports') \ (DOMAIN reports) :
              ~reports'[i].approved
        /\ \A i \in DOMAIN reports :
              /\ WithoutApproved(reports'[i]) = WithoutApproved(reports[i])
              /\ reports'[i] # reports[i] =>
                    /\ last'.op = "approveReport"
                    /\ last'.guard = "allowed"
                    /\ \E u \in users' :
                          u.id = last'.currentUser /\ u.isAdmin ]_vars

\* an admin approved a report
C20_Witness ==
    /\ last.op = "approveReport"
    /\ last.guard = "allowed"
    /\ \E i \in DOMAIN reports : reports[i].approved

UserLookupOps ==
    {"getUserById", "getUserByEmail", "updateUser", "deleteUser", "login"}

\* C21: every lookup miss on a user or a report (getUserById,
\* getUserByEmail, updateUser, deleteUser, login with an unknown email,
\* approveReport on a missing report id) is answered with a 400 or 404 and
\* never with a 500.  With an empty table every lookup is a miss.
C21_LookupMissIsClientError ==
    [][ clock' = clock =>
          /\ users = {} /\ last'.op \in UserLookupOps =>
                last'.status \in {400, 404}
          /\ reports = <<>> /\ last'.op = "approveReport"
                /\ last'.guard = "allowed" =>
                last'.status \in {400, 404} ]_vars

\* the data of a response has the values of the stored user u
DataOf(u) ==
    /\ DOMAIN last.data # {}
    /\ \A f \in DOMAIN last.data : last.data[f] = u[f]

\* C22: getUserById(id) and getUserByEmail(email) answer with a success
\* envelope whose data is the stored user with exactly that id or email when
\* there is one, and throw 'User not found' when there is none.
C22_GetUserReturnsStoredUser ==
    /\ last.op = "getUserById" =>
          IF \E u \in users : u.id = last.arg.id
          THEN /\ last.status = 200
               /\ last.data.id = last.arg.id
               /\ \E u \in users : u.id = last.arg.id /\ DataOf(u)
          ELSE last.status = 400 /\ last.message = "User not found"
    /\ last.op = "getUserByEmail" =>
          IF \E u \in users : u.email = last.arg.email
          THEN /\ last.status = 200
               /\ last.data.email = last.arg.email
               /\ \E u \in users : u.email = last.arg.email /\ DataOf(u)
          ELSE last.status = 400 /\ last.message = "User not found"

\* a user found by email while the other email is not registered
C22_Witness ==
    /\ last.op = "getUserByEmail"
    /\ last.status = 200
    /\ last.data.email = last.arg.email
    /\ \E e \in Emails : \A u \in users : u.email # e

\* C23: within a request the identity resolver has completed before a guard
\* reads the resolved identity: when the session's user exists,
\* request.currentUser is that user when the guard runs.
C23_ResolvedBeforeGuard ==
    last.op \in GuardedOps /\ (\E u \in users : u.id = session[last.client])
        => last.userAtGuard = session[last.client]

C25_ResolveNeverRaises ==
    [][ clock' = clock /\ ResolverRan(last'.guard) =>
          LET sid == session[last'.client]
          IN  /\ sid = 0 => last'.lookups = <<>> /\ last'.currentUser = 0
              /\ sid # 0 =>
                    /\ last'.lookups = <<sid>>
                    /\ last'.currentUser =
                         (IF \E u \in users : u.id = sid THEN sid ELSE 0)
              /\ last'.guard # "denied" => last'.ran ]_vars

\* the session of a deleted user: one lookup, nobody resolved, the handler
\* ran
C25_Witness ==
    /\ last.op = "getEstimate"
    /\ last.lookups = <<session[last.client]>>
    /\ last.currentUser = 0
    /\ last.ran
    /\ last.status = 200

\* handlers that themselves make no call to the users service
ReadOnlyHandlers == {"whoAmI", "signOut", "getEstimate"}

\* C26: identity resolution only reads: resolving the identity of a request
\* leaves every field of every stored user, updatedAt included, unchanged.
C26_ResolveOnlyReads ==
    [][ clock' = clock /\ last'.op \in ReadOnlyHandlers => users' = users ]_vars

\* C27: every successful response of createReport and approveReport has in
\* its data a userId equal to the id of the report's owning user and no
\* nested user; approveReport by an admin on an existing report ends with
\* such a response and does not fail in the serializer.
C27_ReportDataHasUserId ==
    /\ last.op \in SerializedReportOps /\ last.status \in {200, 201} =>
          /\ "user" \notin DOMAIN last.data
          /\ "userId" \in DOMAIN last.data
          /\ \E i \in DOMAIN reports :
                reports[i].id = last.data.id
                    /\ reports[i].user = last.data.userId
    /\ last.op = "approveReport" /\ last.guard = "allowed"
          /\ (\E i \in DOMAIN reports : reports[i].id = last.arg.id) =>
          last.status = 200

\* the password of the request verifies against the stored password of
\* the user with the email of the request
LoginVerifies(resp) ==
    \E u \in users :
        /\ u.email = resp.arg.email
        /\ verifyPassword(u.password, resp.arg.password)

\* C30: a login request is answered with a success envelope only
\* if the password it supplied verifies against the stored password of the
\* user whose email it supplied, in every session state.
C30_LoginSuccessOnlyIfVerified ==
    last.op = "login" /\ last.status = 201 => LoginVerifies(last)

-----------------------------------------------------------------------------
(* The auth and users services called directly, as their unit tests do *)

MaxAuthUsers == 2

\* Partial<User> given to update: an email (the empty one is falsy) or a
\* password
AuthUpdateInputs ==
    {[f \in {"password"} |-> pw] : pw \in RoutePasswords}
        \cup {[f \in {"email"} |-> em] : em \in Emails \cup {""}}

InitAuth ==
    /\ users = {}
    /\ nextUserId = 1
    /\ reports = <<>>
    /\ session = [c \in Clients |-> 0]
    /\ clock = 0
    /\ wiring = "middleware"
    /\ last = NoCall
    /\ hq = NoCall

\* what a test observes of a call: its arguments, its outcome and the user
\* table as it was before the call
Called(op, id, email, password, r) ==
    [op |-> op, id |-> id, email |-> email, password |-> password,
     threw |-> r.threw, status |-> r.status, message |-> r.message,
     user |-> r.user, before |-> users]

\* authService.signup({ name, email, password })
AuthSignup(name, email, password, salt) ==
    LET r == signup(users, [name |-> name, email |-> email,
                            password |-> password],
                    salt, nextUserId, TRUE, clock)
    IN  /\ r.user # {} => nextUserId <= MaxAuthUsers
        /\ users' = r.tbl
        /\ nextUserId' = IF r.user # {} THEN nextUserId + 1 ELSE nextUserId
        /\ last' = Called("signup", 0, email, password, r)
        /\ UNCHANGED <<reports, session, clock, wiring, hq>>

\* authService.signin({ email, password })
AuthSignin(email, password) ==
    LET r == signin(users, [email |-> email, password |-> password])
    IN  /\ users' = r.tbl
        /\ last' = Called("signin", 0, email, password, r)
        /\ UNCHANGED <<nextUserId, reports, session, clock, wiring, hq>>

\* usersService.update(id, attrs)
SvcUpdate(id, attrs) ==
    LET r == update(users, id, attrs, clock)
    IN  /\ users' = r.tbl
        /\ last' = Called("update", id, "", EmptyStr, r)
        /\ UNCHANGED <<nextUserId, reports, session, clock, wiring, hq>>

\* usersService.remove(id)
SvcRemove(id) ==
    LET r == remove(users, id, clock)
    IN  /\ users' = r.tbl
        /\ last' = Called("remove", id, "", EmptyStr, r)
        /\ UNCHANGED <<nextUserId, reports, session, clock, wiring, hq>>

NextAuth ==
    \/ \E n \in Names, em \in Emails, pw \in RoutePasswords, salt \in Salts :
          AuthSignup(n, em, pw, salt)
    \/ \E em \in Emails, pw \in RoutePasswords : AuthSignin(em, pw)
    \/ \E id \in 1..MaxAuthUsers, attrs \in AuthUpdateInputs :
          SvcUpdate(id, attrs)
    \/ \E id \in 1..MaxAuthUsers : SvcRemove(id)

SpecAuth == InitAuth /\ [][NextAuth]_vars

\* C15: signup with an email a stored user holds throws and leaves the user
\* table unchanged; after any sequence of signup, update and remove no two
\* stored users have the same email.
C15_EmailsUnique ==
    /\ last.op = "signup" /\ ByEmail(last.before, last.email) # {} =>
          last.threw /\ users = last.before
    /\ \A u, v \in users : u.email = v.email => u = v

\* a signup refused while two users are stored
C15_Witness ==
    /\ last.op = "signup"
    /\ last.threw
    /\ Cardinality(users) = 2
    /\ ByEmail(users, last.email) # {}

\* C16: signin returns the stored user if and only if a user with that email
\* exists and the password verifies against that user's stored password;
\* otherwise it throws; it never modifies the user table.
C16_SigninIffVerified ==
    last.op = "signin" =>
        LET found == ByEmail(last.before, last.email)
            ok == found # {}
                    /\ verifyPassword(The(found).password, last.password)
        IN  /\ ok <=> (~last.threw /\ last.user # {} /\ last.user = found)
            /\ ~ok <=> last.threw
            /\ users = last.before

\* a signin that returns one of two stored users
C16_Witness ==
    /\ last.op = "signin"
    /\ ~last.threw
    /\ Cardinality(users) = 2

-----------------------------------------------------------------------------
(* The serialize interceptor applied directly to what a handler returns *)

\* the value null
Null == [null |-> TRUE]

\* a response envelope: { action, success, message, meta, data }
Envelope(action, success, message, affectedRows, data) ==
    [action |-> action, success |-> success, message |-> message,
     meta |-> [affectedRows |-> affectedRows], data |-> data]

\* objects a handler puts in data: stored users, or null
DataInputs ==
    { Null,
      NewUser(1, "Zack", "a@test.com", hashPassword(Str("123456"), Str("5a17")),
              TRUE, 0),
      NewUser(2, "Zack", "b@test.com", hashPassword(Str("password"), Str("c0de")),
              FALSE, 1),
      UserData(NewUser(1, "Zack", "a@test.com", EmptyStr, TRUE, 0)) }

EnvelopeInputs ==
    { Envelope(a, ok, m, n, d) :
        a \in {"get User", "update User", "delete User"}, ok \in BOOLEAN,
        m \in {"has been retrieved successfully",
                "has been updated successfully", "User not found"},
        n \in {0, 1}, d \in DataInputs }

\* SerializeInterceptor.intercept, the map over what the handler returned
SerializeInterceptor(dto, data) ==
    IF "data" \in DOMAIN data /\ data.data # Null
    THEN [data EXCEPT !.data = plainToClass(dto, data.data)]
    ELSE plainToClass(dto, data)

InitSerialize ==
    /\ users = {}
    /\ nextUserId = 1
    /\ reports = <<>>
    /\ session = [c \in Clients |-> 0]
    /\ clock = 0
    /\ wiring = "middleware"
    /\ last = NoCall
    /\ hq = NoCall

\* a handler of a @Serialize(UserDto) controller returned an envelope
InterceptEnvelope(envelope) ==
    /\ last' = [op |-> "intercept", input |-> envelope,
                output |-> SerializeInterceptor(UserDto, envelope)]
    /\ UNCHANGED <<users, nextUserId, reports, session, clock, wiring, hq>>

\* a handler returned a bare object, without envelope
InterceptObject(obj) ==
    /\ last' = [op |-> "interceptObject", input |-> obj,
                output |-> SerializeInterceptor(UserDto, obj)]
    /\ UNCHANGED <<users, nextUserId, reports, session, clock, wiring, hq>>

NextSerialize ==
    \/ \E envelope \in EnvelopeInputs : InterceptEnvelope(envelope)
    \/ \E obj \in DataInputs \ {Null} : InterceptObject(obj)

SpecSerialize == InitSerialize /\ [][NextSerialize]_vars

\* C28: the serializer projects only the data of a response envelope: for
\* every envelope a serialized handler returns, one whose data is null
\* included, the output keeps action, success, message and meta as the
\* handler produced them.
C28_EnvelopeKept ==
    last.op = "intercept" =>
        \A f \in {"action", "success", "message", "meta"} :
            f \in DOMAIN last.output /\ last.output[f] = last.input[f]

-----------------------------------------------------------------------------
(* Two register requests in flight at once.  Each await of the handler is   *)
(* a point where the other request can run: findByEmail in signup,          *)
(* findOneBy in create, and the save.  Every request comes without cookie.  *)

Requests == {1, 2}

Idle == [pc |-> "idle", email |-> "", status |-> 0, message |-> "", userId |-> 0]

InitRace ==
    /\ users = {}
    /\ nextUserId = 1
    /\ reports = <<>>
    /\ session = [c \in Clients |-> 0]
    /\ clock = 0
    /\ wiring = "middleware"
    /\ last = [op |-> "register", req |-> [r \in Requests |-> Idle]]
    /\ hq = NoCall

Answer(r, status, message, userId) ==
    [last EXCEPT !.req[r] = [pc |-> "done", email |-> last.req[r].email,
                             status |-> status, message |-> message,
                             userId |-> userId]]

Goto(r, pc) == [last EXCEPT !.req[r].pc = pc]

\* POST /users/register arrives: session.userId is not set
Arrive(r, email) ==
    /\ last.req[r].pc \in {"idle", "done"}
    /\ nextUserId <= MaxAuthUsers
    /\ last' = [last EXCEPT !.req[r] = [Idle EXCEPT !.pc = "signup",
                                                    !.email = email]]
    /\ UNCHANGED <<users, nextUserId, reports, session, clock, wiring, hq>>

\* AuthService.signup: await findByEmail, throw 'Email in use' or go on to
\* hashPassword and usersService.create
SignupFindByEmail(r) ==
    /\ last.req[r].pc = "signup"
    /\ last' = IF ByEmail(users, last.req[r].email) # {}
               THEN Answer(r, 400, "Email in use", 0)
               ELSE Goto(r, "create")
    /\ UNCHANGED <<users, nextUserId, reports, session, clock, wiring, hq>>

\* UsersService.create: await findOneBy; null makes the handler throw
\* BadRequestException('User could not be created')
CreateFindOneBy(r) ==
    /\ last.req[r].pc = "create"
    /\ last' = IF ByEmail(users, last.req[r].email) # {}
               THEN Answer(r, 400, "User could not be created", 0)
               ELSE Goto(r, "save")
    /\ UNCHANGED <<users, nextUserId, reports, session, clock, wiring, hq>>

\* UsersService.create: await repo.save(user); the unique email column
\* rejects the insert with a QueryFailedError, which is not an HttpException
CreateSave(r, password, salt) ==
    LET user == NewUser(nextUserId, "Zack", last.req[r].email,
                        hashPassword(password, salt), TRUE, clock)
    IN  /\ last.req[r].pc = "save"
        /\ IF UniqueEmailFails(users, user)
           THEN /\ last' = Answer(r, 500, "Internal server error", 0)
                /\ UNCHANGED <<users, nextUserId>>
           ELSE /\ users' = users \cup {user}
                /\ nextUserId' = nextUserId + 1
                /\ last' = Answer(r, 201, "has been created successfully",
                                  user.id)
        /\ UNCHANGED <<reports, session, clock, wiring, hq>>

NextRace ==
    \/ \E r \in Requests, em \in Emails : Arrive(r, em)
    \/ \E r \in Requests : SignupFindByEmail(r)
    \/ \E r \in Requests : CreateFindOneBy(r)
    \/ \E r \in Requests, pw \in RoutePasswords, salt \in RouteSalts :
          CreateSave(r, pw, salt)

SpecRace == InitRace /\ [][NextRace]_vars

\* C29: for every interleaving of two concurrent register requests with the
\* same email at most one user with that email is stored, and the request
\* that loses is answered with a 400-class error and not with a 500.
C29_ConcurrentRegister ==
    /\ \A u, v \in users : u.email = v.email => u = v
    /\ \A r \in Requests :
          last.req[r].pc = "done" /\ last.req[r].status # 201 =>
              last.req[r].status \in 400..499

====
